---- MODULE Spec2Model ----
(***************************************************************************)
(* State-space simulation engine of the Cameroon/BEAC DSGE simulator       *)
(* (class CompleteDSGEModelCameroon of dsge_simulator.py).                 *)
(*                                                                         *)
(* Numbers.  A float of the program is a fixed-point integer counted in    *)
(* basis points (1 = 0.0001); a product or quotient is rounded to the      *)
(* nearest basis point where the program rounds to the nearest double.     *)
(* Matrix coefficients are counted in hundredths and the persistence       *)
(* factor in tenths, as they are written in the source.                    *)
(*                                                                         *)
(* Tables.  A pandas DataFrame is a record [kind, columns, rows]: columns  *)
(* is the sequence of column names, rows a function from the 0-based row   *)
(* index to the sequence of the row's cells, in column order.  A call that *)
(* raises returns [kind |-> "error", exc |-> <exception class>].           *)
(***************************************************************************)
EXTENDS Integers, Sequences, FiniteSets, TLC

VARIABLES
    structural_shocks,    \* self.structural_shocks, the shock catalog
    param_distributions,  \* self.param_distributions, the parameter catalog
    bitgen,               \* output function of numpy's global generator
    rng,                  \* state of numpy's global generator (np.random)
    call,                 \* the last operation called, with its arguments
    result,               \* what that call returned or raised
    vd_first              \* history: the first call of generate_variance_decomposition

vars == <<structural_shocks, param_distributions, bitgen, rng, call, result, vd_first>>

(***************************************************************************)
(* Bounds of the model.                                                    *)
(***************************************************************************)
MaxHorizon == 10
MaxQuarters == 21
RngPeriod == 2

\* Inputs the operations are called with.
ShockInputs ==
    {"monetary", "fiscal", "productivity", "risk", "oil_price", "preference",
     "investment", "markup", "monetary_policy", "fiscal_rule", "external",
     "financial", "unknown"}
Amplitudes == {20, 100, 200}
Horizons == {-1, 1, 2, MaxHorizon}

(***************************************************************************)
(* Arithmetic helpers.                                                     *)
(***************************************************************************)
\* n / d rounded to the nearest integer (d > 0).
RoundDiv(n, d) == (2 * n + d) \div (2 * d)

\* An array holds values: f evaluated once, cell by cell, not kept as an expression.
array(f) == IF f = f THEN f ELSE f

\* Sum of f[k] for k in lo..hi.
RECURSIVE SumRange(_, _, _)
SumRange(f, lo, hi) == IF hi < lo THEN 0 ELSE f[hi] + SumRange(f, lo, hi - 1)

(***************************************************************************)
(* Variable indices and names.                                             *)
(***************************************************************************)
n_vars == 15
Y == 0
C == 1
I == 2
PI == 3
R == 4
W == 5
L == 6
NX == 7
G == 8
TAU == 9
DEBT == 10
CR == 11
SPREAD == 12
RER == 13
YGAP == 14

\* Variant: Credit and Spread_Bancaire listed in the other order.
variables_swapped ==
    <<"PIB", "Consommation", "Investissement", "Inflation", "Taux_Interet",
      "Salaire_Reel", "Travail", "Exportations_Nettes", "Depenses_Publiques",
      "Recettes_Fiscales", "Dette_Publique", "Spread_Bancaire", "Credit",
      "Taux_Change_Reel", "Output_Gap">>

variables ==
    <<"PIB", "Consommation", "Investissement", "Inflation", "Taux_Interet",
      "Salaire_Reel", "Travail", "Exportations_Nettes", "Depenses_Publiques",
      "Recettes_Fiscales", "Dette_Publique", "Credit", "Spread_Bancaire",
      "Taux_Change_Reel", "Output_Gap">>

\* np.zeros(n): the vector of n zeros, indexed from 0.
zeros(n) == [i \in 0..(n - 1) |-> 0]

(***************************************************************************)
(* The transition matrix, in hundredths; row i, column j is                *)
(* _build_transition_matrix[i + 1][j + 1].                                 *)
(***************************************************************************)
_build_transition_matrix ==
    << <<85, 15, 20, -5, -12, 8, 12, 5, 8, 2, -1, 15, -3, 6, 10>>,
       <<25, 75, 8, -3, -8, 12, 6, 2, 4, -2, 0, 8, -2, 3, 5>>,
       <<15, 5, 65, -2, -15, 10, 15, 3, 6, -1, 0, 25, -4, 4, 8>>,
       <<8, 3, 2, 55, 20, 5, 3, 2, 4, 2, 2, 3, 8, 12, 6>>,
       <<6, 2, 2, 25, 75, 2, 2, 1, 2, 1, 2, 2, 12, 8, 15>>,
       <<12, 10, 6, 3, -4, 80, 25, 2, 3, 1, 0, 10, -2, 3, 8>>,
       <<15, 8, 10, 2, -6, 20, 75, 2, 5, 1, 0, 12, -2, 2, 10>>,
       <<4, 2, 3, 4, -3, 3, 2, 65, 1, 0, 0, 2, 3, 35, 3>>,
       <<3, 2, 2, 2, 2, 2, 2, 0, 70, 12, 8, 2, 0, 0, 4>>,
       <<4, 3, 2, 3, 2, 3, 2, 0, 18, 75, 12, 3, 0, 0, 5>>,
       <<2, 1, 1, 2, 3, 1, 1, 0, 12, 8, 90, 1, 2, 0, 2>>,
       <<12, 6, 18, 2, -12, 10, 12, 2, 3, 1, 0, 75, 6, 3, 8>>,
       <<3, 2, 2, 6, 12, 2, 2, 2, 1, 0, 2, 4, 75, 8, 4>>,
       <<4, 2, 3, 10, 6, 3, 2, 35, 0, 0, 0, 3, 6, 75, 4>>,
       <<12, 8, 6, 8, 10, 8, 10, 3, 3, 2, 1, 8, 3, 4, 70>> >>

\* A @ x: the matrix-vector product, in hundredths of a basis point.
MatVec(A, x) ==
    array([i \in 0..(n_vars - 1) |->
        SumRange([j \in 0..(n_vars - 1) |-> A[i + 1][j + 1] * x[j]], 0, n_vars - 1)])

(***************************************************************************)
(* simulate_shock                                                          *)
(***************************************************************************)
\* Variant: the amplitude is cut to the range -0.01..0.01 before it is scaled.
Coef_clamped(shock_size, c) ==
    RoundDiv((IF shock_size < -100 THEN -100
              ELSE IF shock_size > 100 THEN 100 ELSE shock_size) * c, 10)

\* shock_size * c for a coefficient c written in tenths (0.8 is 8).
Coef(shock_size, c) == RoundDiv(shock_size * c, 10)

\* The if/elif chain that fills shock_vec; an unmatched type leaves it zero.
shock_vec(shock_type, shock_size) ==
    LET z == zeros(n_vars) IN
    array(
    CASE shock_type = "monetary" ->
            [z EXCEPT ![R] = shock_size, ![CR] = Coef(-shock_size, 8),
                      ![I] = Coef(-shock_size, 6)]
      [] shock_type = "fiscal" ->
            [z EXCEPT ![G] = shock_size, ![Y] = Coef(shock_size, 6),
                      ![DEBT] = Coef(shock_size, 8)]
      [] shock_type = "productivity" ->
            [z EXCEPT ![Y] = shock_size, ![W] = Coef(shock_size, 7),
                      ![PI] = Coef(-shock_size, 3)]
      [] shock_type = "risk" ->
            [z EXCEPT ![SPREAD] = shock_size, ![CR] = Coef(-shock_size, 9),
                      ![RER] = Coef(shock_size, 5)]
      [] shock_type = "oil_price" ->
            [z EXCEPT ![NX] = Coef(shock_size, 8), ![PI] = Coef(shock_size, 4),
                      ![Y] = Coef(shock_size, 3)]
      [] shock_type = "preference" ->
            [z EXCEPT ![C] = shock_size, ![L] = Coef(-shock_size, 5),
                      ![W] = Coef(shock_size, 3)]
      [] shock_type = "investment" ->
            [z EXCEPT ![I] = shock_size, ![Y] = Coef(shock_size, 7),
                      ![CR] = Coef(shock_size, 6)]
      [] shock_type = "markup" ->
            [z EXCEPT ![PI] = shock_size, ![Y] = Coef(-shock_size, 4),
                      ![W] = Coef(-shock_size, 2)]
      [] shock_type = "monetary_policy" ->
            [z EXCEPT ![R] = Coef(shock_size, 12), ![YGAP] = Coef(-shock_size, 5),
                      ![PI] = Coef(-shock_size, 3)]
      [] shock_type = "fiscal_rule" ->
            [z EXCEPT ![TAU] = shock_size, ![G] = Coef(-shock_size, 5),
                      ![DEBT] = Coef(-shock_size, 3)]
      [] shock_type = "external" ->
            [z EXCEPT ![RER] = shock_size, ![R] = Coef(shock_size, 3),
                      ![NX] = Coef(-shock_size, 4)]
      [] shock_type = "financial" ->
            [z EXCEPT ![CR] = -shock_size, ![SPREAD] = Coef(shock_size, 15),
                      ![I] = Coef(-shock_size, 8)]
      [] OTHER -> z)

\* Variant: the switch to 0.9 one period late (t <= 8).
persistence_late(t) == IF t <= 8 THEN 8 ELSE 9

\* persistence = 0.8 if t < 8 else 0.9, in tenths.
persistence(t) == IF t < 8 THEN 8 ELSE 9

\* Variant: at t = 1 the shock also goes through the matrix, A @ shock_vec + shock_vec.
next_column_through_matrix(A, prev, t, sv) ==
    IF t = 1
    THEN LET Az == MatVec(A, sv)
         IN  array([i \in 0..(n_vars - 1) |-> RoundDiv(Az[i], 100) + sv[i]])
    ELSE LET Ax == MatVec(A, prev)
         IN  array([i \in 0..(n_vars - 1) |-> RoundDiv(Ax[i] * persistence(t), 1000)])

\* Variant: the damping factor divides instead of multiplying, A @ X[:, t-1] / persistence.
next_column_divided(A, prev, t, sv) ==
    IF t = 1
    THEN LET Az == MatVec(A, zeros(n_vars))
         IN  array([i \in 0..(n_vars - 1) |-> RoundDiv(Az[i], 100) + sv[i]])
    ELSE LET Ax == MatVec(A, prev)
         IN  array([i \in 0..(n_vars - 1) |-> RoundDiv(Ax[i], 10 * persistence(t))])

\* The body of the loop: column t of X from column t - 1.
\* t = 1:  A @ np.zeros(n_vars) + shock_vec;  t > 1:  A @ X[:, t-1] * persistence.
next_column(A, prev, t, sv) ==
    IF t = 1
    THEN LET Az == MatVec(A, zeros(n_vars))
         IN  array([i \in 0..(n_vars - 1) |-> RoundDiv(Az[i], 100) + sv[i]])
    ELSE LET Ax == MatVec(A, prev)
         IN  array([i \in 0..(n_vars - 1) |-> RoundDiv(Ax[i] * persistence(t), 1000)])

\* Variant: the loop writes column t - 1, so the shock lands in period 0.
RECURSIVE propagate_from_zero(_, _, _, _, _)
propagate_from_zero(X, A, t, periods, sv) ==
    IF t > periods
    THEN X
    ELSE propagate_from_zero(
             array([X EXCEPT ![t - 1] =
                        next_column(A, X[IF t >= 2 THEN t - 2 ELSE 0], t, sv)]),
             A, t + 1, periods, sv)

\* for t in range(1, periods): X maps a period to its column, X[t][i] is X[i, t].
RECURSIVE propagate(_, _, _, _, _)
propagate(X, A, t, periods, sv) ==
    IF t >= periods
    THEN X
    ELSE propagate(array([X EXCEPT ![t] = next_column(A, X[t - 1], t, sv)]),
                   A, t + 1, periods, sv)

\* Variant: the period index counted from 1, range(1, periods + 1).
simulation_frame_one_based(X, periods) ==
    [kind |-> "table",
     columns |-> Append(variables, "Periode"),
     rows |-> [t \in 0..(periods - 1) |->
                 Append([k \in 1..n_vars |-> X[t][k - 1]], t + 1)]]

\* pd.DataFrame(X.T, columns=variables) followed by df['Periode'] = range(periods).
simulation_frame(X, periods) ==
    [kind |-> "table",
     columns |-> Append(variables, "Periode"),
     rows |-> [t \in 0..(periods - 1) |->
                 Append([k \in 1..n_vars |-> X[t][k - 1]], t)]]

\* np.zeros((n_vars, periods)) raises ValueError on a negative dimension.
simulate_shock(shock_type, shock_size, periods) ==
    IF periods < 0
    THEN [kind |-> "error", exc |-> "ValueError"]
    ELSE LET X0 == [t \in 0..(periods - 1) |-> zeros(n_vars)]
             A == _build_transition_matrix
             sv == shock_vec(shock_type, shock_size)
         IN  simulation_frame(propagate(X0, A, 1, periods, sv), periods)

(***************************************************************************)
(* The pure-matrix propagation mode of the simpler model variant: the same *)
(* shock vector and matrix, state[t] = A state[t-1] with no damping        *)
(* factor.                                                                 *)
(***************************************************************************)
pure_matrix_column(A, prev, t, sv) ==
    IF t = 1
    THEN LET Az == MatVec(A, zeros(n_vars))
         IN  array([i \in 0..(n_vars - 1) |-> RoundDiv(Az[i], 100) + sv[i]])
    ELSE LET Ax == MatVec(A, prev)
         IN  array([i \in 0..(n_vars - 1) |-> RoundDiv(Ax[i], 100)])

RECURSIVE propagate_pure_matrix(_, _, _, _, _)
propagate_pure_matrix(X, A, t, periods, sv) ==
    IF t >= periods
    THEN X
    ELSE propagate_pure_matrix(
             array([X EXCEPT ![t] = pure_matrix_column(A, X[t - 1], t, sv)]),
             A, t + 1, periods, sv)

simulate_pure_matrix(shock_type, shock_size, periods) ==
    IF periods < 0
    THEN [kind |-> "error", exc |-> "ValueError"]
    ELSE LET X0 == [t \in 0..(periods - 1) |-> zeros(n_vars)]
             A == _build_transition_matrix
             sv == shock_vec(shock_type, shock_size)
         IN  simulation_frame(propagate_pure_matrix(X0, A, 1, periods, sv), periods)

(***************************************************************************)
(* The catalogs built by __init__.  A dict is the sequence of its entries  *)
(* in insertion order, each entry carrying its key.  Means and standard    *)
(* deviations of the parameter catalog are counted in thousandths.         *)
(***************************************************************************)
ShockCatalog ==
    << [key |-> "monetary", name |-> "Choc de Politique Monétaire",
        description |-> "Variation inattendue du TIAO par la BEAC", color |-> "#FF6B6B",
        variables |-> <<"Taux_Interet", "Inflation", "Credit", "PIB">>],
       [key |-> "fiscal", name |-> "Choc Budgétaire",
        description |-> "Variation des dépenses publiques", color |-> "#4ECDC4",
        variables |-> <<"Depenses_Publiques", "Dette_Publique", "PIB", "Inflation">>],
       [key |-> "productivity", name |-> "Choc de Productivité (PTF)",
        description |-> "Choc technologique sur la fonction de production",
        color |-> "#45B7D1",
        variables |-> <<"PIB", "Salaire_Reel", "Travail", "Investissement">>],
       [key |-> "risk", name |-> "Choc de Prime de Risque",
        description |-> "Variation du spread de crédit et prime de risque pays",
        color |-> "#96CEB4",
        variables |-> <<"Spread_Bancaire", "Credit", "Investissement", "Taux_Change_Reel">>],
       [key |-> "oil_price", name |-> "Choc Prix Pétrole",
        description |-> "Variation des termes de l'échange", color |-> "#FECA57",
        variables |-> <<"Exportations_Nettes", "Inflation", "Taux_Change_Reel", "PIB">>],
       [key |-> "preference", name |-> "Choc de Préférence",
        description |-> "Choc sur les préférences de consommation des ménages",
        color |-> "#FF9FF3",
        variables |-> <<"Consommation", "PIB", "Travail", "Salaire_Reel">>],
       [key |-> "investment", name |-> "Choc d'Investissement",
        description |-> "Choc sur les coûts d'ajustement de l'investissement",
        color |-> "#54A0FF",
        variables |-> <<"Investissement", "PIB", "Credit", "Taux_Interet">>],
       [key |-> "markup", name |-> "Choc de Marge (Mark-up)",
        description |-> "Choc sur les marges des entreprises (coût-push)",
        color |-> "#5F27CD",
        variables |-> <<"Inflation", "PIB", "Salaire_Reel", "Output_Gap">>],
       [key |-> "monetary_policy", name |-> "Choc de Règle Monétaire",
        description |-> "Déviation de la règle de Taylor", color |-> "#FF9F43",
        variables |-> <<"Taux_Interet", "Inflation", "Output_Gap", "Credit">>],
       [key |-> "fiscal_rule", name |-> "Choc de Règle Budgétaire",
        description |-> "Déviation de la règle fiscale", color |-> "#10AC84",
        variables |-> <<"Recettes_Fiscales", "Dette_Publique", "PIB", "Depenses_Publiques">>],
       [key |-> "external", name |-> "Choc Externe",
        description |-> "Choc sur les taux d'intérêt internationaux", color |-> "#00D2D3",
        variables |-> <<"Taux_Change_Reel", "Exportations_Nettes", "Taux_Interet", "PIB">>],
       [key |-> "financial", name |-> "Choc Financier",
        description |-> "Choc sur les contraintes de liquidité", color |-> "#FF3838",
        variables |-> <<"Credit", "Spread_Bancaire", "Investissement", "Consommation">>] >>

ParamCatalog ==
    << [key |-> "beta", mean |-> 960, std |-> 10, dist |-> "beta",
        description |-> "Facteur d'actualisation"],
       [key |-> "sigma", mean |-> 2000, std |-> 200, dist |-> "gamma",
        description |-> "Aversion au risque"],
       [key |-> "phi", mean |-> 1500, std |-> 150, dist |-> "gamma",
        description |-> "Élasticité inverse de Frisch"],
       [key |-> "theta_c", mean |-> 300, std |-> 30, dist |-> "beta",
        description |-> "Part des importations"],
       [key |-> "eta", mean |-> 1500, std |-> 100, dist |-> "gamma",
        description |-> "Élasticité de substitution"],
       [key |-> "delta", mean |-> 100, std |-> 10, dist |-> "beta",
        description |-> "Taux de dépréciation"],
       [key |-> "alpha", mean |-> 350, std |-> 30, dist |-> "beta",
        description |-> "Part du capital"],
       [key |-> "theta", mean |-> 750, std |-> 50, dist |-> "beta",
        description |-> "Rigidité des prix (Calvo)"],
       [key |-> "epsilon", mean |-> 6000, std |-> 500, dist |-> "gamma",
        description |-> "Élasticité substitution biens"],
       [key |-> "mu", mean |-> 20, std |-> 5, dist |-> "gamma",
        description |-> "Marge bancaire moyenne"],
       [key |-> "rr", mean |-> 50, std |-> 10, dist |-> "beta",
        description |-> "Ratio réserves obligatoires"],
       [key |-> "rho_g", mean |-> 700, std |-> 50, dist |-> "beta",
        description |-> "Persistance dépenses publiques"],
       [key |-> "phi_pi", mean |-> 1500, std |-> 100, dist |-> "gamma",
        description |-> "Réaction à l'inflation"],
       [key |-> "phi_y", mean |-> 500, std |-> 50, dist |-> "gamma",
        description |-> "Réaction à l'output gap"],
       [key |-> "pi_star", mean |-> 30, std |-> 5, dist |-> "beta",
        description |-> "Cible d'inflation"] >>

\* list(d.keys())
keys(d) == [k \in 1..Len(d) |-> d[k].key]

\* d[key] for a key of d
entry(d, key) == d[CHOOSE k \in 1..Len(d) : d[k].key = key]

\* lst.index(x), 0-based
index(lst, x) == (CHOOSE k \in 1..Len(lst) : lst[k] = x) - 1

(***************************************************************************)
(* numpy's global generator.  The generator's output function is not part  *)
(* of this program: bitgen is fixed when the process starts, and maps a     *)
(* generator state to the uniform double it yields there, in quarters      *)
(* (d stands for d/4).  A draw moves the state one step on.                 *)
(***************************************************************************)
Draws == {1, 3}
RngStates == 0..(RngPeriod - 1)

\* np.random.seed(n): the state the seed n selects.
seed(n) == n % RngPeriod

\* The state after n draws from state s.
advance(s, n) == (s + n) % RngPeriod

\* The k-th (0-based) uniform double drawn from state s, in quarters.
random_sample(bg, s, k) == bg[advance(s, k)]

\* np.random.uniform(low, high): low + (high - low) * u.
uniform(low, high, d) == low + RoundDiv((high - low) * d, 4)

\* np.random.normal(loc, scale): loc + scale * z, z standing at (2d - 3)/2.
normal(loc, scale, d) == loc + RoundDiv(scale * (2 * d - 3), 2)

(***************************************************************************)
(* generate_variance_decomposition                                         *)
(***************************************************************************)
\* The hand-assigned shares, <<row, shock key, share in hundredths>>.
prior_assignments ==
    { <<0, "productivity", 35>>, <<0, "monetary", 15>>, <<0, "fiscal", 12>>,
      <<0, "preference", 10>>, <<0, "investment", 8>>, <<0, "financial", 7>>,
      <<0, "oil_price", 6>>, <<0, "external", 4>>, <<0, "risk", 3>>,
      <<3, "monetary", 25>>, <<3, "markup", 20>>, <<3, "oil_price", 15>>,
      <<3, "monetary_policy", 12>>, <<3, "external", 10>>, <<3, "fiscal", 8>>,
      <<3, "productivity", 6>>, <<3, "risk", 4>> }

\* contributions after the assignments, before the noise: zeros((15, n_shocks))
\* with contributions[row, shock_names.index(key)] = share.
priors(shock_names) ==
    array([i \in 0..(n_vars - 1) |->
        [j \in 0..(Len(shock_names) - 1) |->
            LET hit == {a \in prior_assignments :
                            a[1] = i /\ index(shock_names, a[2]) = j}
            IN  IF hit = {} THEN 0 ELSE 100 * (CHOOSE a \in hit : TRUE)[3]]])

\* np.clip(x, 0, 1), 1 being 10000 basis points.
clip(x) == IF x < 0 THEN 0 ELSE IF x > 10000 THEN 10000 ELSE x

\* contributions += np.random.uniform(-0.02, 0.02, shape); np.clip(contributions, 0, 1).
\* Cell (i, j) takes draw number i * n_shocks + j.
noisy_contributions(shock_names, bg, s) ==
    LET n_shocks == Len(shock_names)
        base == priors(shock_names)
    IN  array([i \in 0..(n_vars - 1) |->
            [j \in 0..(n_shocks - 1) |->
                clip(base[i][j]
                     + uniform(-200, 200, random_sample(bg, s, i * n_shocks + j)))]])

\* contributions / contributions.sum(axis=1, keepdims=True).  The quotient c / s
\* is kept as the pair <<c, s>>; <<0, 0>> is the nan that 0 / 0 yields.
normalize_rows(contributions, n_shocks) ==
    array([i \in 0..(n_vars - 1) |->
        LET total == SumRange(contributions[i], 0, n_shocks - 1)
        IN  [j \in 0..(n_shocks - 1) |-> <<contributions[i][j], total>>]])

\* Variant: without np.random.seed(42), the noise is drawn from the state left by
\* the calls before.
generate_variance_decomposition_unseeded(shocks, bg, s, horizon) ==
    LET shock_names == keys(shocks)
        n_shocks == Len(shocks)
        contributions ==
            normalize_rows(noisy_contributions(shock_names, bg, s), n_shocks)
    IN  [rng |-> advance(s, n_vars * n_shocks),
         ret |-> [kind |-> "table",
                  columns |-> [k \in 1..n_shocks |-> entry(shocks, shock_names[k]).name],
                  index |-> variables,
                  rows |-> [i \in 0..(n_vars - 1) |->
                              [k \in 1..n_shocks |-> contributions[i][k - 1]]]]]

\* Variant: the width of the noise follows the horizon, 0.001 * horizon (0.02 at the
\* default horizon of 20).
generate_variance_decomposition_by_horizon(shocks, bg, s, horizon) ==
    LET s0 == seed(42)
        shock_names == keys(shocks)
        n_shocks == Len(shocks)
        base == priors(shock_names)
        width == 10 * horizon
        noisy == array([i \in 0..(n_vars - 1) |->
                     [j \in 0..(n_shocks - 1) |->
                         clip(base[i][j]
                              + uniform(-width, width,
                                        random_sample(bg, s0, i * n_shocks + j)))]])
        contributions == normalize_rows(noisy, n_shocks)
    IN  [rng |-> advance(s0, n_vars * n_shocks),
         ret |-> [kind |-> "table",
                  columns |-> [k \in 1..n_shocks |-> entry(shocks, shock_names[k]).name],
                  index |-> variables,
                  rows |-> [i \in 0..(n_vars - 1) |->
                              [k \in 1..n_shocks |-> contributions[i][k - 1]]]]]

\* The call: the frame it returns and the generator state it leaves.
generate_variance_decomposition(shocks, bg, s, horizon) ==
    LET s0 == seed(42)
        shock_names == keys(shocks)
        n_shocks == Len(shocks)
        contributions ==
            normalize_rows(noisy_contributions(shock_names, bg, s0), n_shocks)
    IN  [rng |-> advance(s0, n_vars * n_shocks),
         ret |-> [kind |-> "table",
                  columns |-> [k \in 1..n_shocks |-> entry(shocks, shock_names[k]).name],
                  index |-> variables,
                  rows |-> [i \in 0..(n_vars - 1) |->
                              [k \in 1..n_shocks |-> contributions[i][k - 1]]]]]

(***************************************************************************)
(* generate_historical_decomposition                                       *)
(***************************************************************************)
Min(a, b) == IF a < b THEN a ELSE b
Max(a, b) == IF a > b THEN a ELSE b

\* np.linspace(start, stop, num), indexed from 0.
linspace(start, stop, num) ==
    array([k \in 0..(num - 1) |-> start + RoundDiv(k * (stop - start), num - 1)])

\* np.cumsum over a vector of n cells.
cumsum(f, n) == array([k \in 0..(n - 1) |-> SumRange(f, 0, k)])

\* base[lo:hi] = vals for a vector of n cells and num values: the slice is cut at
\* the end of the vector, and numpy raises ValueError unless the values have the
\* slice's length (or are a single value, which it repeats).
set_slice(base, n, lo, hi, vals, num) ==
    LET a == Min(lo, n)
        b == Min(hi, n)
        len == Max(b - a, 0)
    IN  IF len = num \/ num = 1
        THEN [ok |-> TRUE,
              v |-> array([k \in 0..(n - 1) |->
                        IF a <= k /\ k < b
                        THEN (IF num = 1 THEN vals[0] ELSE vals[k - a])
                        ELSE base[k]])]
        ELSE [ok |-> FALSE, v |-> base]

\* Two slice assignments in a row; the second is not reached when the first raises.
set_slices(base, n, lo1, hi1, vals1, num1, lo2, hi2, vals2, num2) ==
    LET first == set_slice(base, n, lo1, hi1, vals1, num1)
    IN  IF first.ok THEN set_slice(first.v, n, lo2, hi2, vals2, num2) ELSE first

\* The episode of one shock: [ok, v, drawn], drawn counting the draws it took.
base_series(shock, periods, bg, s) ==
    LET z == zeros(periods)
        plain(r) == [ok |-> r.ok, v |-> r.v, drawn |-> 0]
    IN  CASE shock = "oil_price" ->
                plain(set_slices(z, periods, 0, 8, linspace(-3000, -1000, 8), 8,
                                 16, 20, linspace(2000, 4000, 4), 4))
          [] shock = "monetary" ->
                plain(set_slices(z, periods, 12, 16, linspace(-4000, -2000, 4), 4,
                                 18, 20, linspace(1000, 3000, 2), 2))
          [] shock = "fiscal" ->
                plain(set_slices(z, periods, 12, 16, linspace(3000, 5000, 4), 4,
                                 18, 20, linspace(-1000, -2000, 2), 2))
          [] shock = "productivity" ->
                [ok |-> TRUE,
                 v |-> cumsum(array([k \in 0..(periods - 1) |->
                                  normal(100, 200, random_sample(bg, s, k))]), periods),
                 drawn |-> periods]
          [] shock = "risk" ->
                plain(set_slice(z, periods, 12, 14, linspace(4000, 6000, 2), 2))
          [] OTHER -> [ok |-> TRUE, v |-> z, drawn |-> 0]

\* for shock in shock_names: historical_data[name] = base_series.  data is the dict
\* so far, k the next shock, s the generator state; stops at the first ValueError.
RECURSIVE episodes(_, _, _, _, _, _)
episodes(shocks, k, data, periods, bg, s) ==
    IF k > Len(shocks)
    THEN [ok |-> TRUE, data |-> data, rng |-> s]
    ELSE LET ser == base_series(shocks[k].key, periods, bg, s)
         IN  IF ~ser.ok
             THEN [ok |-> FALSE, data |-> data, rng |-> s]
             ELSE episodes(shocks, k + 1,
                           Append(data, [key |-> shocks[k].name, series |-> ser.v]),
                           periods, bg, advance(s, ser.drawn))

\* 100 + cumsum(normal(0.02, 0.015, periods) + sum of the series * 0.3)
observed_output(data, periods, bg, s) ==
    LET total == array([t \in 0..(periods - 1) |->
                     SumRange([k \in 1..Len(data) |-> data[k].series[t]], 1, Len(data))])
        steps == array([t \in 0..(periods - 1) |->
                     normal(200, 150, random_sample(bg, s, t))
                     + RoundDiv(total[t] * 3, 10)])
        walk == cumsum(steps, periods)
    IN  array([t \in 0..(periods - 1) |-> 1000000 + walk[t]])

\* pd.date_range('2015-01-01', periods=periods, freq='Q'): the quarter ends,
\* <<year, month, day>>.
date_range(periods) ==
    [t \in 0..(periods - 1) |->
        LET month == 3 * ((t % 4) + 1)
        IN  <<2015 + (t \div 4), month, IF month \in {3, 12} THEN 31 ELSE 30>>]

\* The call: what it returns or raises and the generator state it leaves.
generate_historical_decomposition(shocks, bg, s, periods) ==
    LET s0 == seed(42)
    IN  IF periods < 0
        THEN [rng |-> s0, ret |-> [kind |-> "error", exc |-> "ValueError"]]
        ELSE LET dates == date_range(periods)
                 ep == episodes(shocks, 1, <<>>, periods, bg, s0)
             IN  IF ~ep.ok
                 THEN [rng |-> ep.rng, ret |-> [kind |-> "error", exc |-> "ValueError"]]
                 ELSE LET pib == observed_output(ep.data, periods, bg, ep.rng)
                          n == Len(ep.data)
                      IN  [rng |-> advance(ep.rng, periods),
                           ret |-> [kind |-> "table",
                                    columns |-> [k \in 1..(n + 2) |->
                                                   IF k <= n THEN ep.data[k].key
                                                   ELSE IF k = n + 1 THEN "PIB Observé"
                                                   ELSE "Date"],
                                    rows |-> [t \in 0..(periods - 1) |->
                                                [k \in 1..(n + 2) |->
                                                   IF k <= n THEN ep.data[k].series[t]
                                                   ELSE IF k = n + 1 THEN pib[t]
                                                   ELSE dates[t]]]]]

(***************************************************************************)
(* generate_posterior_distributions                                        *)
(*                                                                         *)
(* A sample is kept as [sampler, args, u]: the value the named numpy       *)
(* sampler yields with these arguments at the generator output u.  Shape   *)
(* arguments are counted in thousandths, the gamma scale in millionths.    *)
(***************************************************************************)
\* Variant: the family is never matched, every parameter falls to the normal sampler.
sampler_of_normal(config) ==
    IF config.std < 0
    THEN [ok |-> FALSE, exc |-> "ValueError"]
    ELSE [ok |-> TRUE, sampler |-> "normal", args |-> <<config.mean, config.std>>]

\* The sampler one catalog entry selects and its arguments, or the exception
\* raised while computing or checking them.
sampler_of(config) ==
    CASE config.dist = "beta" ->
            LET alpha == config.mean * 20
                beta == (1000 - config.mean) * 20
            IN  IF alpha <= 0 \/ beta <= 0
                THEN [ok |-> FALSE, exc |-> "ValueError"]
                ELSE [ok |-> TRUE, sampler |-> "beta", args |-> <<alpha, beta>>]
      [] config.dist = "gamma" ->
            IF config.std = 0 \/ config.mean = 0
            THEN [ok |-> FALSE, exc |-> "ZeroDivisionError"]
            ELSE LET ratio == RoundDiv(config.mean * 1000, config.std)
                     shape == RoundDiv(ratio * ratio, 1000)
                     scale == RoundDiv(config.std * config.std * 1000, config.mean)
                 IN  IF shape < 0 \/ scale < 0
                     THEN [ok |-> FALSE, exc |-> "ValueError"]
                     ELSE [ok |-> TRUE, sampler |-> "gamma", args |-> <<shape, scale>>]
      [] OTHER ->
            IF config.std < 0
            THEN [ok |-> FALSE, exc |-> "ValueError"]
            ELSE [ok |-> TRUE, sampler |-> "normal", args |-> <<config.mean, config.std>>]

\* for param, config in self.param_distributions.items(): ...  out is the dict so
\* far, k the next parameter, s the generator state.  A negative n_draws makes the
\* sampler raise ValueError.
RECURSIVE draw_parameters(_, _, _, _, _, _)
draw_parameters(params, k, out, n_draws, bg, s) ==
    IF k > Len(params)
    THEN [rng |-> s, ret |-> [kind |-> "samples", params |-> out]]
    ELSE LET sel == sampler_of(params[k])
         IN  IF ~sel.ok
             THEN [rng |-> s, ret |-> [kind |-> "error", exc |-> sel.exc]]
             ELSE IF n_draws < 0
             THEN [rng |-> s, ret |-> [kind |-> "error", exc |-> "ValueError"]]
             ELSE draw_parameters(
                      params, k + 1,
                      Append(out,
                             [key |-> params[k].key,
                              samples |->
                                  [m \in 1..n_draws |->
                                      [sampler |-> sel.sampler, args |-> sel.args,
                                       u |-> random_sample(bg, s, m - 1)]],
                              description |-> params[k].description]),
                      n_draws, bg, advance(s, n_draws))

generate_posterior_distributions(params, bg, s, n_draws) ==
    draw_parameters(params, 1, <<>>, n_draws, bg, s)

(***************************************************************************)
(* The engine as a state machine: one action per operation of the class,   *)
(* called in any order with any of the enumerated arguments.               *)
(***************************************************************************)
MaxDraws == 2
VarianceHorizons == {4, 20}
Quarters == {-1, 0, 8, 19, 20, MaxQuarters}
DrawCounts == {-1, 0, 1, MaxDraws}

\* The operations over the enumerated arguments and the catalogs __init__ builds,
\* computed once; a call with other catalogs is computed when it is made.
Generators == [RngStates -> Draws]

simulate_runs ==
    array([st \in ShockInputs, a \in Amplitudes, h \in Horizons |->
              simulate_shock(st, a, h)])

pure_matrix_runs ==
    array([st \in ShockInputs, a \in Amplitudes, h \in Horizons |->
              simulate_pure_matrix(st, a, h)])

variance_runs ==
    array([bg \in Generators, s \in RngStates, h \in VarianceHorizons |->
              generate_variance_decomposition(ShockCatalog, bg, s, h)])

historical_runs ==
    array([bg \in Generators, s \in RngStates, n \in Quarters |->
              generate_historical_decomposition(ShockCatalog, bg, s, n)])

posterior_runs ==
    array([bg \in Generators, s \in RngStates, n \in DrawCounts |->
              generate_posterior_distributions(ParamCatalog, bg, s, n)])

run_variance(shocks, bg, s, h) ==
    IF shocks = ShockCatalog
    THEN variance_runs[bg, s, h]
    ELSE generate_variance_decomposition(shocks, bg, s, h)

run_historical(shocks, bg, s, n) ==
    IF shocks = ShockCatalog
    THEN historical_runs[bg, s, n]
    ELSE generate_historical_decomposition(shocks, bg, s, n)

run_posterior(params, bg, s, n) ==
    IF params = ParamCatalog
    THEN posterior_runs[bg, s, n]
    ELSE generate_posterior_distributions(params, bg, s, n)

Nothing == [kind |-> "none"]

Init ==
    /\ structural_shocks = ShockCatalog
    /\ param_distributions = ParamCatalog
    /\ bitgen \in Generators
    /\ rng \in RngStates
    /\ call = [op |-> "__init__"]
    /\ result = Nothing
    /\ vd_first = Nothing

\* The history notes that another operation ran after the first variance call.
noted(h) == IF h = Nothing THEN h ELSE [h EXCEPT !.between = TRUE]

Simulate(shock_type, shock_size, periods) ==
    /\ call' = [op |-> "simulate_shock", shock_type |-> shock_type,
                shock_size |-> shock_size, periods |-> periods]
    /\ result' = simulate_runs[shock_type, shock_size, periods]
    /\ vd_first' = noted(vd_first)
    /\ UNCHANGED <<structural_shocks, param_distributions, bitgen, rng>>

VarianceDecomposition(horizon) ==
    LET r == run_variance(structural_shocks, bitgen, rng, horizon)
    IN  /\ call' = [op |-> "generate_variance_decomposition", horizon |-> horizon]
        /\ result' = r.ret
        /\ rng' = r.rng
        /\ vd_first' = IF vd_first = Nothing
                       THEN [kind |-> "first", horizon |-> horizon, ret |-> r.ret,
                             between |-> FALSE]
                       ELSE vd_first
        /\ UNCHANGED <<structural_shocks, param_distributions, bitgen>>

HistoricalDecomposition(periods) ==
    LET r == run_historical(structural_shocks, bitgen, rng, periods)
    IN  /\ call' = [op |-> "generate_historical_decomposition", periods |-> periods]
        /\ result' = r.ret
        /\ rng' = r.rng
        /\ vd_first' = noted(vd_first)
        /\ UNCHANGED <<structural_shocks, param_distributions, bitgen>>

SamplePosteriors(n_draws) ==
    LET r == run_posterior(param_distributions, bitgen, rng, n_draws)
    IN  /\ call' = [op |-> "generate_posterior_distributions", n_draws |-> n_draws]
        /\ result' = r.ret
        /\ rng' = r.rng
        /\ vd_first' = noted(vd_first)
        /\ UNCHANGED <<structural_shocks, param_distributions, bitgen>>

Next ==
    \/ \E st \in ShockInputs, a \in Amplitudes, h \in Horizons : Simulate(st, a, h)
    \/ \E h \in VarianceHorizons : VarianceDecomposition(h)
    \/ \E n \in Quarters : HistoricalDecomposition(n)
    \/ \E n \in DrawCounts : SamplePosteriors(n)

Spec == Init /\ [][Next]_vars

(***************************************************************************)
(* Properties of simulate_shock.                                           *)
(***************************************************************************)
CatalogKeys == {structural_shocks[k].key : k \in 1..Len(structural_shocks)}

Simulated == call.op = "simulate_shock"

\* The cell of row t under the column called name.
Cell(t, name) == result.rows[t][index(result.columns, name) + 1]

\* C1: simulate with a shock_type that is no key of the shock catalog fails with
\* an unknown-shock error and returns no table.
C1_UnknownShockRejected ==
    (Simulated /\ call.shock_type \notin CatalogKeys)
        => result.kind = "error"

\* The documented coefficients, in tenths, by shock type and variable name.
ShockCoefficients ==
    [monetary |-> {<<"Taux_Interet", 10>>, <<"Credit", -8>>, <<"Investissement", -6>>},
     fiscal |-> {<<"Depenses_Publiques", 10>>, <<"PIB", 6>>, <<"Dette_Publique", 8>>},
     productivity |-> {<<"PIB", 10>>, <<"Salaire_Reel", 7>>, <<"Inflation", -3>>},
     risk |-> {<<"Spread_Bancaire", 10>>, <<"Credit", -9>>, <<"Taux_Change_Reel", 5>>},
     oil_price |-> {<<"Exportations_Nettes", 8>>, <<"Inflation", 4>>, <<"PIB", 3>>},
     preference |-> {<<"Consommation", 10>>, <<"Travail", -5>>, <<"Salaire_Reel", 3>>},
     investment |-> {<<"Investissement", 10>>, <<"PIB", 7>>, <<"Credit", 6>>},
     markup |-> {<<"Inflation", 10>>, <<"PIB", -4>>, <<"Salaire_Reel", -2>>},
     monetary_policy |-> {<<"Taux_Interet", 12>>, <<"Output_Gap", -5>>, <<"Inflation", -3>>},
     fiscal_rule |-> {<<"Recettes_Fiscales", 10>>, <<"Depenses_Publiques", -5>>,
                      <<"Dette_Publique", -3>>},
     external |-> {<<"Taux_Change_Reel", 10>>, <<"Taux_Interet", 3>>,
                   <<"Exportations_Nettes", -4>>},
     financial |-> {<<"Credit", -10>>, <<"Spread_Bancaire", 15>>, <<"Investissement", -8>>}]

VariableNames == {variables[k] : k \in 1..Len(variables)}

\* C2: for every catalog shock type, amplitude a and horizon with a period 1, row 1
\* of the table is the shock vector: a times the coefficient on each coordinate the
\* type lists, 0 on every other, with nothing added by the transition matrix.
C2_RowOneIsShockVector ==
    (Simulated /\ call.shock_type \in CatalogKeys /\ call.periods >= 2)
        => /\ result.kind = "table"
           /\ \A name \in VariableNames :
                LET listed == {c \in ShockCoefficients[call.shock_type] : c[1] = name}
                IN  IF listed = {}
                    THEN Cell(1, name) = 0
                    ELSE \A c \in listed : 10 * Cell(1, name) = call.shock_size * c[2]

C2_Witness ==
    /\ Simulated /\ call.shock_type = "monetary" /\ call.shock_size = 200
    /\ call.periods = MaxHorizon
    /\ Cell(1, "Taux_Interet") = 200 /\ Cell(1, "Credit") = -160
    /\ Cell(1, "Investissement") = -120 /\ Cell(1, "PIB") = 0

\* C3: for every catalog shock type, amplitude and horizon with a period 0, row 0
\* of the table is zero in all 15 variables.
C3_RowZeroIsZero ==
    (Simulated /\ call.shock_type \in CatalogKeys /\ call.periods >= 1)
        => /\ result.kind = "table"
           /\ \A name \in VariableNames : Cell(0, name) = 0

C3_Witness ==
    /\ Simulated /\ call.shock_type = "financial" /\ call.periods = MaxHorizon
    /\ \A name \in VariableNames : Cell(0, name) = 0
    /\ Cell(1, "Credit") # 0

\* The damping factor as documented, in tenths: 0.8 before period 8, 0.9 from it.
documented_persistence(t) == IF t >= 8 THEN 9 ELSE 8

\* The 15 variables of row t, indexed from 0.
StateAt(t) == [i \in 0..(n_vars - 1) |-> result.rows[t][i + 1]]

\* C4: the shock enters once, at period 1; every later period t >= 2 is the
\* transition matrix applied to period t - 1, times persistence(t), and the shock
\* vector is not added again.
C4_LaterPeriodsPropagate ==
    (Simulated /\ result.kind = "table")
        => \A t \in 2..(call.periods - 1) :
              LET Ax == MatVec(_build_transition_matrix, StateAt(t - 1))
              IN  \A i \in 0..(n_vars - 1) :
                    StateAt(t)[i] = RoundDiv(Ax[i] * documented_persistence(t), 1000)

C4_Witness ==
    /\ Simulated /\ call.shock_type = "monetary" /\ call.shock_size = 200
    /\ call.periods > 9
    /\ Cell(7, "PIB") # 0 /\ Cell(8, "PIB") # 0 /\ Cell(9, "PIB") # 0
    /\ Cell(2, "Taux_Interet") # Cell(1, "Taux_Interet")

\* C5: simulate rejects every horizon below 2 (1, 0, negative) with an
\* invalid-horizon error instead of returning a table.
C5_ShortHorizonRejected ==
    (Simulated /\ call.periods < 2) => result.kind = "error"

ExpectedColumns ==
    <<"PIB", "Consommation", "Investissement", "Inflation", "Taux_Interet",
      "Salaire_Reel", "Travail", "Exportations_Nettes", "Depenses_Publiques",
      "Recettes_Fiscales", "Dette_Publique", "Credit", "Spread_Bancaire",
      "Taux_Change_Reel", "Output_Gap", "Periode">>

\* C6: for every catalog shock type, amplitude and horizon >= 2 the table has
\* exactly `horizon` rows and 16 columns, the 15 variables in their fixed order and
\* then the period index, whose value in row i is i.
C6_TableShape ==
    (Simulated /\ call.shock_type \in CatalogKeys /\ call.periods >= 2)
        => /\ result.kind = "table"
           /\ result.columns = ExpectedColumns
           /\ DOMAIN result.rows = 0..(call.periods - 1)
           /\ \A t \in DOMAIN result.rows :
                /\ Len(result.rows[t]) = Len(ExpectedColumns)
                /\ Cell(t, "Periode") = t

C6_Witness ==
    /\ Simulated /\ call.shock_type = "external" /\ call.periods = MaxHorizon
    /\ Cardinality(DOMAIN result.rows) = MaxHorizon
    /\ Cell(MaxHorizon - 1, "Periode") = MaxHorizon - 1
    /\ Cell(MaxHorizon - 1, "PIB") # 0

(***************************************************************************)
(* Properties of the engine's state and of the decompositions.             *)
(***************************************************************************)
\* C7: no operation keeps or changes state that another call reads: across every
\* call the shock catalog, the parameter catalog and the random source stay what
\* they were, so the next call sees them as if the call had not happened.
C7_NoCrossCallState ==
    [][/\ structural_shocks' = structural_shocks
       /\ param_distributions' = param_distributions
       /\ rng' = rng]_vars

VarianceCalled == call.op = "generate_variance_decomposition"

\* The sum of the quotients of one row, all over the same divisor: <<sum, divisor>>.
RowTotal(row) ==
    <<SumRange([k \in 1..Len(row) |-> row[k][1]], 1, Len(row)), row[1][2]>>

C9_SameHorizonSameTable ==
    (VarianceCalled /\ vd_first # Nothing /\ vd_first.horizon = call.horizon)
        => result = vd_first.ret

C9_Witness ==
    /\ VarianceCalled /\ vd_first # Nothing
    /\ vd_first.between /\ vd_first.horizon = call.horizon
    /\ result = vd_first.ret
    /\ \E i \in DOMAIN result.rows, j \in DOMAIN result.rows :
          result.rows[i] # result.rows[j]

HistoricalCalled == call.op = "generate_historical_decomposition"

\* C10: for every positive numQuarters the historical decomposition returns a
\* table of exactly numQuarters rows holding one series per shock of the catalog,
\* the observed-output series and the date; a span shorter than the last scripted
\* quarter does not make the call fail.
C10_HistoricalShape ==
    (HistoricalCalled /\ call.periods > 0)
        => /\ result.kind = "table"
           /\ DOMAIN result.rows = 0..(call.periods - 1)
           /\ Len(result.columns) = Len(structural_shocks) + 2

(***************************************************************************)
(* Linearity of simulate_shock in the amplitude.                           *)
(***************************************************************************)
Abs(x) == IF x < 0 THEN -x ELSE x

\* The largest absolute row sum of the transition matrix, in hundredths.
MatrixNorm ==
    LET rowsum(i) ==
            SumRange([j \in 1..n_vars |-> Abs(_build_transition_matrix[i][j])], 1, n_vars)
    IN  CHOOSE m \in {rowsum(i) : i \in 1..n_vars} :
            \A i \in 1..n_vars : rowsum(i) <= m

\* The rounding that separates period t of a run at k times the amplitude from k
\* times period t of the run at the amplitude, in half basis points: each period
\* rounds both runs once (1 + k halves) and carries the gap of the period before
\* through the matrix and the damping factor.
RECURSIVE Rounding(_, _)
Rounding(k, t) ==
    IF t <= 0 THEN 0
    ELSE IF t = 1 THEN 1 + k
    ELSE (MatrixNorm * documented_persistence(t) * Rounding(k, t - 1) + 999) \div 1000
         + 1 + k

\* Every entry of the table `scaled` is k times the entry of the table `unit`, up
\* to the rounding of the arithmetic; the period index is the same in both.
ScaledBy(k, scaled, unit) ==
    /\ scaled.kind = "table" /\ unit.kind = "table"
    /\ DOMAIN scaled.rows = DOMAIN unit.rows
    /\ \A t \in DOMAIN scaled.rows :
          /\ \A i \in 1..n_vars :
                2 * Abs(scaled.rows[t][i] - k * unit.rows[t][i]) <= Rounding(k, t)
          /\ scaled.rows[t][n_vars + 1] = unit.rows[t][n_vars + 1]

\* C11: amplitude scaling is linear: for every catalog shock type, amplitude a,
\* horizon h and factor k in {0.5, 2, 10}, every entry of simulate(type, k a, h) is
\* k times the entry of simulate(type, a, h), within the rounding of the arithmetic.
C11_AmplitudeScalingLinear ==
    (Simulated /\ call.shock_type \in CatalogKeys /\ call.periods >= 0)
        => \A a \in Amplitudes :
              LET unit == simulate_runs[call.shock_type, a, call.periods]
              IN  /\ \A k \in {2, 10} :
                        call.shock_size = k * a => ScaledBy(k, result, unit)
                  /\ 2 * call.shock_size = a => ScaledBy(2, unit, result)

C11_Witness ==
    /\ Simulated /\ call.shock_type = "monetary" /\ call.shock_size = 200
    /\ call.periods = MaxHorizon
    /\ 20 \in Amplitudes
    /\ ScaledBy(10, result, simulate_runs["monetary", 20, MaxHorizon])
    /\ Cell(1, "Taux_Interet") = 200 /\ Cell(1, "Credit") = -160
    /\ simulate_runs["monetary", 20, MaxHorizon].rows[1][R + 1] = 20
    /\ Cell(MaxHorizon - 1, "Taux_Interet") # 0

(***************************************************************************)
(* The two propagation modes side by side.                                 *)
(***************************************************************************)
\* The rounding carried by period t of a pure-matrix run, in half basis points.
RECURSIVE PureRounding(_)
PureRounding(t) ==
    IF t <= 1 THEN 0
    ELSE (MatrixNorm * PureRounding(t - 1) + 99) \div 100 + 1

\* The rounding carried by period t of a persistence-decay run, in half basis points.
RECURSIVE DecayRounding(_)
DecayRounding(t) ==
    IF t <= 1 THEN 0
    ELSE (MatrixNorm * documented_persistence(t) * DecayRounding(t - 1) + 999) \div 1000 + 1

PosteriorCalled == call.op = "generate_posterior_distributions"

\* A gamma parameter whose mean and std give a non-positive shape or scale, or a
\* beta parameter whose mean is outside (0, 1); means are in thousandths.
BadHyperparameters(params) ==
    \E k \in 1..Len(params) :
        \/ params[k].dist = "gamma" /\ (params[k].mean <= 0 \/ params[k].std <= 0)
        \/ params[k].dist = "beta" /\ (params[k].mean <= 0 \/ params[k].mean >= 1000)

\* C13: samplePosteriors fails with an invalid-parameter-configuration condition and
\* returns no samples when nDraws < 1, when a gamma parameter's mean and std give a
\* non-positive shape or scale, or when a beta parameter's mean is outside (0, 1).
C13_InvalidConfigurationRejected ==
    (PosteriorCalled /\ (call.n_draws < 1 \/ BadHyperparameters(param_distributions)))
        => result.kind = "error"

\* The sampler of a declared family.
FamilySampler(dist) ==
    IF dist = "beta" THEN "beta" ELSE IF dist = "gamma" THEN "gamma" ELSE "normal"

\* C14: for every nDraws >= 1 samplePosteriors returns an entry for each of the 15
\* catalog parameters, holding exactly nDraws samples and the parameter's
\* description, every sample drawn by the sampler of the declared family.
C14_PosteriorShape ==
    (PosteriorCalled /\ call.n_draws >= 1)
        => /\ result.kind = "samples"
           /\ Len(result.params) = 15
           /\ Len(result.params) = Len(param_distributions)
           /\ \A k \in 1..Len(result.params) :
                 LET config == param_distributions[k]
                     drawn == result.params[k]
                 IN  /\ drawn.key = config.key
                     /\ drawn.description = config.description
                     /\ Len(drawn.samples) = call.n_draws
                     /\ \A m \in 1..Len(drawn.samples) :
                           drawn.samples[m].sampler = FamilySampler(config.dist)

C14_Witness ==
    /\ PosteriorCalled /\ call.n_draws = MaxDraws
    /\ result.kind = "samples"
    /\ result.params[1].key = "beta" /\ result.params[1].samples[1].sampler = "beta"
    /\ result.params[2].key = "sigma" /\ result.params[2].samples[1].sampler = "gamma"
    /\ Len(result.params[15].samples) = MaxDraws
    /\ result.params[15].description = "Cible d'inflation"

(***************************************************************************)
(* The variable index mapping.                                             *)
(***************************************************************************)
\* The index of each variable as the shock injections and the matrix rows use it.
DocumentedIndex ==
    [PIB |-> Y, Consommation |-> C, Investissement |-> I, Inflation |-> PI,
     Taux_Interet |-> R, Salaire_Reel |-> W, Travail |-> L, Exportations_Nettes |-> NX,
     Depenses_Publiques |-> G, Recettes_Fiscales |-> TAU, Dette_Publique |-> DEBT,
     Credit |-> CR, Spread_Bancaire |-> SPREAD, Taux_Change_Reel |-> RER,
     Output_Gap |-> YGAP]

\* The names the shock definitions list as principally affected.
ListedVariables ==
    UNION {{structural_shocks[k].variables[m] :
                m \in 1..Len(structural_shocks[k].variables)} :
           k \in 1..Len(structural_shocks)}

\* C15: the variable index mapping is one and the same everywhere and never
\* changes: the index of a shock coordinate, the matrix row and the output column
\* of that index name the same variable, every variable a shock definition lists
\* is one of the 15 output columns, and no operation modifies the catalog.
C15_IndexMappingConsistent ==
    /\ structural_shocks = ShockCatalog
    /\ Len(structural_shocks) = 12
    /\ DOMAIN DocumentedIndex = VariableNames
    /\ ListedVariables \subseteq VariableNames
    /\ (Simulated /\ result.kind = "table")
          => /\ ListedVariables \subseteq {result.columns[c] : c \in 1..n_vars}
             /\ \A name \in DOMAIN DocumentedIndex :
                   LET i == DocumentedIndex[name]
                   IN  /\ result.columns[i + 1] = name
                       /\ call.periods >= 2 =>
                             Cell(1, name) = shock_vec(call.shock_type, call.shock_size)[i]
                       /\ call.periods >= 3 =>
                             Cell(2, name) =
                                RoundDiv(MatVec(_build_transition_matrix, StateAt(1))[i]
                                             * documented_persistence(2), 1000)

C15_Witness ==
    /\ Simulated /\ call.shock_type = "risk" /\ call.periods = MaxHorizon
    /\ vd_first # Nothing /\ vd_first.between
    /\ structural_shocks = ShockCatalog
    /\ result.columns[SPREAD + 1] = "Spread_Bancaire"
    /\ Cell(1, "Spread_Bancaire") = call.shock_size
    /\ Cell(1, "Credit") # 0 /\ Cell(1, "Taux_Change_Reel") # 0
    /\ Cell(1, "PIB") = 0 /\ Cell(2, "PIB") # 0
    /\ "Spread_Bancaire" \in ListedVariables

(***************************************************************************)
(* The horizon argument of generate_variance_decomposition.                *)
(***************************************************************************)
\* C16: the table returned by the variance decomposition does not depend on its
\* horizon argument: a call returns the table the first call returned, whatever
\* the two horizons are.
C16_HorizonNeverRead ==
    (VarianceCalled /\ vd_first # Nothing) => result = vd_first.ret

C16_Witness ==
    /\ VarianceCalled /\ vd_first # Nothing
    /\ vd_first.horizon # call.horizon
    /\ vd_first.between
    /\ result = vd_first.ret
    /\ result.kind = "table"
    /\ \E i \in DOMAIN result.rows, j \in DOMAIN result.rows :
          result.rows[i] # result.rows[j]

====
